---------------------------- MODULE Spec2Model ----------------------------
(***************************************************************************)
(* Model of app.py (NiceDay PDF API): the three request handlers thumbs,   *)
(* render_page and export_pdf, and the helpers _parse_deletions and        *)
(* _page_idx_from_filename.  The document engine (PyMuPDF) is modelled as  *)
(* a sequence of pages; every engine call may raise.                       *)
(***************************************************************************)
EXTENDS Integers, Sequences, FiniteSets, TLC

\* ------------------------------------------------------------------ bounds
MaxPages == 3
MaxRaw == 2
MaxOverlays == 2
ParseMaxPages == 5
ParseMaxRaw == 4

\* ----------------------------------------------------------------- helpers
Range(s) == {s[i] : i \in 1..Len(s)}

SetMax(S) == CHOOSE m \in S : \A x \in S : x <= m

SetMin(S) == CHOOSE m \in S : \A x \in S : m <= x

\* sorted(S): ascending list of a set of integers
RECURSIVE SortedAsc(_)
SortedAsc(S) == IF S = {} THEN <<>>
                ELSE <<SetMin(S)>> \o SortedAsc(S \ {SetMin(S)})

\* sorted(S, reverse=True)
RECURSIVE SortedDesc(_)
SortedDesc(S) == IF S = {} THEN <<>>
                 ELSE <<SetMax(S)>> \o SortedDesc(S \ {SetMax(S)})

SeqsUpTo(A, n) == UNION {[1..k -> A] : k \in 0..n}

\* -------------------------------------------------------------- characters
Digits == <<"0", "1", "2", "3", "4", "5", "6", "7", "8", "9">>

DigitSet == {"0", "1", "2", "3", "4", "5", "6", "7", "8", "9"}

IsDigit(c) == c \in DigitSet

DigitVal(c) == (CHOOSE k \in 1..10 : Digits[k] = c) - 1

DigitChar(k) == Digits[k + 1]

\* value of a non-empty run of decimal digits
RECURSIVE DecVal(_)
DecVal(s) == IF s = <<>> THEN 0
             ELSE 10 * DecVal(SubSeq(s, 1, Len(s) - 1)) + DigitVal(s[Len(s)])

AllDigits(s) == \A i \in 1..Len(s) : IsDigit(s[i])

\* str.strip() for the blank character
RECURSIVE LStrip(_)
LStrip(s) == IF s # <<>> /\ s[1] = " " THEN LStrip(Tail(s)) ELSE s

RECURSIVE RStrip(_)
RStrip(s) == IF s # <<>> /\ s[Len(s)] = " "
             THEN RStrip(SubSeq(s, 1, Len(s) - 1)) ELSE s

Strip(s) == RStrip(LStrip(s))

\* ------------------------------------------------------------ JSON entries
\* A decoded JSON value inside the deletions array.  t is its type, v the
\* number (for a float: the value in tenths), s the characters of a string.
IntE(k) == [t |-> "int", v |-> k, s |-> <<>>]
FloatE(tenths) == [t |-> "float", v |-> tenths, s |-> <<>>]
StrE(chars) == [t |-> "str", v |-> 0, s |-> chars]
NullE == [t |-> "null", v |-> 0, s |-> <<>>]

Raised == [ok |-> FALSE, v |-> 0]
Value(k) == [ok |-> TRUE, v |-> k]

\* int(str): blanks stripped, an optional sign, then one or more digits
IntOfStr(chars) ==
    LET body == Strip(chars)
        signed == body # <<>> /\ body[1] \in {"-", "+"}
        digs == IF signed THEN Tail(body) ELSE body
    IN IF digs = <<>> \/ ~AllDigits(digs) THEN Raised
       ELSE IF signed /\ body[1] = "-" THEN Value(0 - DecVal(digs))
       ELSE Value(DecVal(digs))

\* int(float) truncates toward zero
TruncTenths(tenths) == IF tenths >= 0 THEN tenths \div 10
                       ELSE 0 - ((0 - tenths) \div 10)

\* int(x) at line 48: the value, or Raised when int() raises
IntOf(x) == CASE x.t = "int" -> Value(x.v)
              [] x.t = "float" -> Value(TruncTenths(x.v))
              [] x.t = "str" -> IntOfStr(x.s)
              [] OTHER -> Raised

\* ------------------------------------------------------- _parse_deletions
\* The request's deletions field: kind says what json.loads makes of it.
\*   "list"    a JSON array, items its elements
\*   "empty"   the empty string (raw or "[]")
\*   "string"  a JSON string, iterated character by character
\*   "scalar"  a JSON number, null or boolean: not iterable
\*   "notjson" text json.loads rejects
RawList(items) == [kind |-> "list", items |-> items]
RawEmpty == [kind |-> "empty", items |-> <<>>]
RawString(chars) == [kind |-> "string", items |-> [i \in 1..Len(chars) |-> StrE(<<chars[i]>>)]]
RawScalar == [kind |-> "scalar", items |-> <<>>]
RawNotJson == [kind |-> "notjson", items |-> <<>>]

\* A loop that gives up on the first entry that fails to parse.
RECURSIVE KeepLoopAbort(_, _, _)
KeepLoopAbort(arr, page_count, keep) ==
    IF arr = <<>> THEN keep
    ELSE LET i == IntOf(Head(arr))
         IN IF ~i.ok THEN <<>>
            ELSE IF 0 <= i.v /\ i.v < page_count
            THEN KeepLoopAbort(Tail(arr), page_count, Append(keep, i.v))
            ELSE KeepLoopAbort(Tail(arr), page_count, keep)

\* lines 46-52: the loop over arr, keep grown by the entries that parse in range
RECURSIVE KeepLoop(_, _, _)
KeepLoop(arr, page_count, keep) ==
    IF arr = <<>> THEN keep
    ELSE LET i == IntOf(Head(arr))
         IN IF i.ok /\ 0 <= i.v /\ i.v < page_count
            THEN KeepLoop(Tail(arr), page_count, Append(keep, i.v))
            ELSE KeepLoop(Tail(arr), page_count, keep)

\* lines 42-55
ParseDeletions(raw, page_count) ==
    IF raw.kind \in {"notjson", "scalar"} THEN <<>>
    ELSE SortedAsc(Range(KeepLoop(raw.items, page_count, <<>>)))

\* ------------------------------------------------ _page_idx_from_filename
NoIdx == -1

\* the last maximal run of digits of name, as characters (<<>> when none)
RECURSIVE LastDigitRun(_)
LastDigitRun(name) ==
    IF name = <<>> THEN <<>>
    ELSE IF IsDigit(name[Len(name)])
    THEN LET start == CHOOSE k \in 1..Len(name) :
                         /\ \A j \in k..Len(name) : IsDigit(name[j])
                         /\ (k = 1 \/ ~IsDigit(name[k - 1]))
         IN SubSeq(name, start, Len(name))
    ELSE LastDigitRun(SubSeq(name, 1, Len(name) - 1))

\* the first maximal run of digits of name
RECURSIVE FirstDigitRun(_)
FirstDigitRun(name) ==
    IF name = <<>> THEN <<>>
    ELSE IF IsDigit(name[1])
    THEN LET end == CHOOSE k \in 1..Len(name) :
                       /\ \A j \in 1..k : IsDigit(name[j])
                       /\ (k = Len(name) \/ ~IsDigit(name[k + 1]))
         IN SubSeq(name, 1, end)
    ELSE FirstDigitRun(Tail(name))

PageIdxFirst(name) ==
    IF FirstDigitRun(name) = <<>> THEN NoIdx ELSE DecVal(FirstDigitRun(name))

\* lines 57-63: the last integer found in name, or None (NoIdx)
PageIdxFromFilename(name) ==
    IF LastDigitRun(name) = <<>> THEN NoIdx ELSE DecVal(LastDigitRun(name))

\* ------------------------------------------------------------------- state
VARIABLES
    handler,     \* which route serves the request: "export", "thumbs", "page", "parse"
    pdfPages,    \* page count of the uploaded pdf (page_count for "parse")
    raw,         \* the deletions form field
    overlays,    \* filenames of the uploaded overlays, in request order
    pageArg,     \* render_page's page form field
    pc,          \* position in the handler
    handle,      \* the fitz document: "none", "open", "closed"
    closes,      \* number of doc.close() calls
    badUse,      \* a document call was made while the document was not open
    doc,         \* the document: its pages, each [orig, imgs]
    parsed,      \* result of _parse_deletions
    delete_idx,  \* set(_parse_deletions(...))
    ovi,         \* overlays consumed by the loop at line 147 (thumbs: pages rendered)
    delq,        \* what is left of sorted(delete_idx, reverse=True)
    calls,       \* document-engine calls issued, in order, with the ones that raised
    exc,         \* an exception is propagating
    out,         \* export: the saved pages; thumbs: the rendered pages
    ret,         \* the value of the return statement, pending the finally block
    resp         \* the response sent

vars == <<handler, pdfPages, raw, overlays, pageArg, pc, handle, closes, badUse,
          doc, parsed, delete_idx, ovi, delq, calls, exc, out, ret, resp>>

request == <<handler, pdfPages, raw, overlays, pageArg>>

NoResp == [kind |-> "none", body |-> <<>>]
Resp(k, b) == [kind |-> k, body |-> b]

\* the pages of a freshly opened document of n pages
FreshDoc(n) == [i \in 1..n |-> [orig |-> i - 1, imgs |-> <<>>]]

\* page.insert_image on the page at 0-based index idx
InsertImage(d, idx, ov) ==
    [d EXCEPT ![idx + 1].imgs = Append(@, ov)]

\* A delete_page that takes its index as 1-based.
DeletePageOneBased(d, idx) ==
    SubSeq(d, 1, idx - 1) \o SubSeq(d, idx + 1, Len(d))

\* doc.delete_page(idx), 0-based
DeletePage(d, idx) ==
    SubSeq(d, 1, idx) \o SubSeq(d, idx + 2, Len(d))

\* an entry of calls: op on page index idx, which held original page orig;
\* ov is the overlay inserted (0 when none)
Call(op, idx, orig, ov) == [op |-> op, idx |-> idx, orig |-> orig, ov |-> ov]

Use == badUse' = (badUse \/ handle # "open")

\* ------------------------------------------------------------------ inputs
NameFor(k) == <<"o", "v", "_", DigitChar(k), ".", "p", "n", "g">>
NameNoInt == <<"o", "v", ".", "p", "n", "g">>
NameTwoInts == <<"7", "-", "0", ".", "p", "n", "g">>

\* overlay filenames tagged 0 (after a first integer 7), 1..n, and untagged
FileNames(n) == {NameFor(k) : k \in 1..n} \cup {NameNoInt, NameTwoInts}

RawEntries(n) == {IntE(k) : k \in 0..(n - 1)} \cup {StrE(<<"x">>)}

RawInputs(n) == {RawList(items) : items \in SeqsUpTo(RawEntries(n), MaxRaw)}
                  \cup {RawNotJson}

Idle ==
    /\ pc = "start"
    /\ handle = "none"
    /\ closes = 0
    /\ badUse = FALSE
    /\ doc = <<>>
    /\ parsed = <<>>
    /\ delete_idx = {}
    /\ ovi = 0
    /\ delq = <<>>
    /\ calls = <<>>
    /\ exc = FALSE
    /\ out = <<>>
    /\ ret = NoResp
    /\ resp = NoResp

Init ==
    /\ \/ /\ handler = "export"
          /\ pdfPages \in 0..MaxPages
          /\ raw \in RawInputs(pdfPages)
          /\ overlays \in SeqsUpTo(FileNames(pdfPages), MaxOverlays)
          /\ pageArg = 0
       \/ /\ handler = "thumbs"
          /\ pdfPages \in 0..MaxPages
          /\ raw = RawEmpty
          /\ overlays = <<>>
          /\ pageArg = 0
       \/ /\ handler = "page"
          /\ pdfPages \in 0..MaxPages
          /\ raw = RawEmpty
          /\ overlays = <<>>
          /\ pageArg \in -1..(pdfPages + 1)
    /\ Idle

\* ------------------------------------------------- open / close / except
FailedKind == CASE handler = "export" -> "export_failed"
                [] handler = "thumbs" -> "thumbs_failed"
                [] OTHER -> "page_render_failed"

\* the order of export_pdf's phases after the parse: the overlay loop (146-157),
\* the deletion loop (159-162), the save (164-173)
PhaseOrderSwapped == <<"deletions", "overlays", "save">>

PhaseOrder == <<"overlays", "deletions", "save">>

FirstPhase == PhaseOrder[1]

PhaseAfter(ph) == PhaseOrder[(CHOOSE k \in 1..Len(PhaseOrder) : PhaseOrder[k] = ph) + 1]

\* thumbs 89-91, render_page 113-115, export_pdf 140-141: read the upload and open it
OpenDoc ==
    /\ handler \in {"export", "thumbs", "page"}
    /\ pc = "start"
    /\ handle' = "open"
    /\ doc' = FreshDoc(pdfPages)
    /\ pc' = CASE handler = "export" -> "parse"
               [] handler = "thumbs" -> "loop"
               [] OTHER -> "render"
    /\ UNCHANGED <<request, closes, badUse, parsed, delete_idx, ovi, delq, calls,
                   exc, out, ret, resp>>

\* pdf.read() or fitz.open raises: control goes to the outer except, no document
OpenRaises ==
    /\ handler \in {"export", "thumbs", "page"}
    /\ pc = "start"
    /\ exc' = TRUE
    /\ pc' = "except"
    /\ calls' = Append(calls, Call("open_raised", NoIdx, NoIdx, 0))
    /\ UNCHANGED <<request, handle, closes, badUse, doc, parsed, delete_idx, ovi,
                   delq, out, ret, resp>>

\* A close that is skipped while an exception propagates (no finally block).
CloseDocLeaky ==
    /\ pc = "finally"
    /\ handle' = IF exc THEN handle ELSE "closed"
    /\ closes' = IF exc THEN closes ELSE closes + 1
    /\ pc' = IF exc THEN "except" ELSE "done"
    /\ resp' = IF exc THEN resp ELSE ret
    /\ UNCHANGED <<request, badUse, doc, parsed, delete_idx, ovi, delq, calls,
                   exc, out, ret>>

\* thumbs 100-101, render_page 122-123, export_pdf 174-175: finally: doc.close(),
\* then the pending return completes or the exception reaches the outer except
CloseDoc ==
    /\ pc = "finally"
    /\ handle' = "closed"
    /\ closes' = closes + 1
    /\ pc' = IF exc THEN "except" ELSE "done"
    /\ resp' = IF exc THEN resp ELSE ret
    /\ UNCHANGED <<request, badUse, doc, parsed, delete_idx, ovi, delq, calls,
                   exc, out, ret>>

\* thumbs 102-103, render_page 124-125, export_pdf 176-177
ExceptHandler ==
    /\ pc = "except"
    /\ exc' = FALSE
    /\ resp' = Resp(FailedKind, <<>>)
    /\ pc' = "done"
    /\ UNCHANGED <<request, handle, closes, badUse, doc, parsed, delete_idx, ovi,
                   delq, calls, out, ret>>

\* an engine call inside the inner try raises: on to the finally block
RaiseInTry(op, idx, ov) ==
    /\ exc' = TRUE
    /\ pc' = "finally"
    /\ calls' = Append(calls, Call(op, idx, NoIdx, ov))

\* ------------------------------------------------------------- export_pdf
\* the order in which the deletion loop visits delete_idx (line 160)
DeletionOrderAscending(S) == SortedAsc(S)

DeletionOrder(S) == SortedDesc(S)

\* control enters phase ph; entering the deletion loop evaluates
\* sorted(delete_idx, reverse=True)
Enter(ph, D) ==
    /\ pc' = ph
    /\ delq' = IF ph = "deletions" THEN DeletionOrder(D) ELSE delq

\* line 144: delete_idx = set(_parse_deletions(deletions, len(doc)))
ExportParse ==
    /\ handler = "export"
    /\ pc = "parse"
    /\ Use
    /\ parsed' = ParseDeletions(raw, Len(doc))
    /\ delete_idx' = Range(parsed')
    /\ Enter(FirstPhase, delete_idx')
    /\ UNCHANGED <<request, handle, closes, doc, ovi, calls, exc, out, ret, resp>>

\* the overlay the loop at line 147 takes next, and its page_idx (line 148)
NextOverlay == ovi + 1
NextPageIdx == PageIdxFromFilename(overlays[NextOverlay])

\* Guards that forget the deletion set.
SkippedIgnoringDeletions(page_idx) ==
    \/ page_idx = NoIdx
    \/ ~(0 <= page_idx /\ page_idx < Len(doc))

\* lines 149-152: the two guards that skip an overlay
Skipped(page_idx) ==
    \/ page_idx = NoIdx
    \/ page_idx \in delete_idx
    \/ ~(0 <= page_idx /\ page_idx < Len(doc))

\* lines 147-152: continue
OverlaySkip ==
    /\ handler = "export"
    /\ pc = "overlays"
    /\ ovi < Len(overlays)
    /\ Skipped(NextPageIdx)
    /\ Use
    /\ ovi' = NextOverlay
    /\ UNCHANGED <<request, pc, handle, closes, doc, parsed, delete_idx, delq,
                   calls, exc, out, ret, resp>>

\* A resolver that shifts the index by the deletions below it.
TargetIdxShifted(page_idx) ==
    page_idx - Cardinality({d \in delete_idx : d < page_idx})

\* the page index the overlay is inserted at (line 154: doc[page_idx])
TargetIdx(page_idx) == page_idx

\* lines 153-157: read the overlay and stretch it over the page
OverlayInsert ==
    /\ handler = "export"
    /\ pc = "overlays"
    /\ ovi < Len(overlays)
    /\ ~Skipped(NextPageIdx)
    /\ Use
    /\ LET idx == TargetIdx(NextPageIdx)
       IN /\ doc' = InsertImage(doc, idx, NextOverlay)
          /\ calls' = Append(calls, Call("insert_image", idx, doc[idx + 1].orig, NextOverlay))
    /\ ovi' = NextOverlay
    /\ UNCHANGED <<request, pc, handle, closes, parsed, delete_idx, delq, exc,
                   out, ret, resp>>

\* An overlay loop that catches the exception and goes on with the next overlay.
OverlayRaisesAbsorbed ==
    /\ handler = "export"
    /\ pc = "overlays"
    /\ ovi < Len(overlays)
    /\ ~Skipped(NextPageIdx)
    /\ Use
    /\ calls' = Append(calls, Call("insert_image_raised", TargetIdx(NextPageIdx), NoIdx, NextOverlay))
    /\ ovi' = NextOverlay
    /\ UNCHANGED <<request, pc, handle, closes, doc, parsed, delete_idx, delq, exc,
                   out, ret, resp>>

\* lines 153-157: ov.read(), doc[page_idx] or insert_image raises; nothing
\* around them catches it before the finally block
OverlayRaises ==
    /\ handler = "export"
    /\ pc = "overlays"
    /\ ovi < Len(overlays)
    /\ ~Skipped(NextPageIdx)
    /\ Use
    /\ RaiseInTry("insert_image_raised", TargetIdx(NextPageIdx), NextOverlay)
    /\ UNCHANGED <<request, handle, closes, doc, parsed, delete_idx, ovi, delq,
                   out, ret, resp>>

\* line 147: the overlay loop is exhausted
OverlaysDone ==
    /\ handler = "export"
    /\ pc = "overlays"
    /\ ovi = Len(overlays)
    /\ Enter(PhaseAfter("overlays"), delete_idx)
    /\ UNCHANGED <<request, handle, closes, badUse, doc, parsed, delete_idx, ovi,
                   calls, exc, out, ret, resp>>

\* lines 160-162: one turn of the deletion loop
DeleteStep ==
    /\ handler = "export"
    /\ pc = "deletions"
    /\ delq # <<>>
    /\ Use
    /\ LET idx == Head(delq)
       IN IF 0 <= idx /\ idx < Len(doc)
          THEN /\ doc' = DeletePage(doc, idx)
               /\ calls' = Append(calls, Call("delete_page", idx, doc[idx + 1].orig, 0))
          ELSE /\ doc' = doc
               /\ calls' = Append(calls, Call("guard_reject", idx, NoIdx, 0))
    /\ delq' = Tail(delq)
    /\ UNCHANGED <<request, pc, handle, closes, parsed, delete_idx, ovi, exc, out,
                   ret, resp>>

\* line 162: doc.delete_page raises
DeleteRaises ==
    /\ handler = "export"
    /\ pc = "deletions"
    /\ delq # <<>>
    /\ 0 <= Head(delq) /\ Head(delq) < Len(doc)
    /\ Use
    /\ RaiseInTry("delete_page_raised", Head(delq), 0)
    /\ UNCHANGED <<request, handle, closes, doc, parsed, delete_idx, ovi, delq,
                   out, ret, resp>>

\* line 160: the deletion loop is exhausted
DeletionsDone ==
    /\ handler = "export"
    /\ pc = "deletions"
    /\ delq = <<>>
    /\ Enter(PhaseAfter("deletions"), delete_idx)
    /\ UNCHANGED <<request, handle, closes, badUse, doc, parsed, delete_idx, ovi,
                   calls, exc, out, ret, resp>>

\* lines 165-173: doc.save into out, and the StreamingResponse over its bytes
SaveDoc ==
    /\ handler = "export"
    /\ pc = "save"
    /\ Use
    /\ out' = doc
    /\ ret' = Resp("pdf", out')
    /\ pc' = "finally"
    /\ UNCHANGED <<request, handle, closes, doc, parsed, delete_idx, ovi, delq,
                   calls, exc, resp>>

\* line 166: doc.save raises
SaveRaises ==
    /\ handler = "export"
    /\ pc = "save"
    /\ Use
    /\ RaiseInTry("save_raised", NoIdx, 0)
    /\ UNCHANGED <<request, handle, closes, doc, parsed, delete_idx, ovi, delq,
                   out, ret, resp>>

\* ------------------------------------------------------------------ thumbs
\* lines 94-98: render page i and append its data URL
ThumbStep ==
    /\ handler = "thumbs"
    /\ pc = "loop"
    /\ ovi < Len(doc)
    /\ Use
    /\ out' = Append(out, doc[ovi + 1].orig)
    /\ ovi' = ovi + 1
    /\ UNCHANGED <<request, pc, handle, closes, doc, parsed, delete_idx, delq,
                   calls, exc, ret, resp>>

\* lines 95-97: doc[i], get_pixmap or tobytes raises
ThumbRaises ==
    /\ handler = "thumbs"
    /\ pc = "loop"
    /\ ovi < Len(doc)
    /\ Use
    /\ RaiseInTry("get_pixmap_raised", ovi, 0)
    /\ UNCHANGED <<request, handle, closes, doc, parsed, delete_idx, ovi, delq,
                   out, ret, resp>>

\* line 99: return {"count": len(out), "thumbs": out}
ThumbsReturn ==
    /\ handler = "thumbs"
    /\ pc = "loop"
    /\ ovi = Len(doc)
    /\ Use
    /\ ret' = Resp("thumbs", out)
    /\ pc' = "finally"
    /\ UNCHANGED <<request, handle, closes, doc, parsed, delete_idx, ovi, delq,
                   calls, exc, out, resp>>

\* ------------------------------------------------------------- render_page
Min2(a, b) == IF a < b THEN a ELSE b
Max2(a, b) == IF a > b THEN a ELSE b

\* line 117: page = max(0, min(page, len(doc) - 1))
ClampPage(page, n) == Max2(0, Min2(page, n - 1))

\* lines 117-121: render the clamped page into a PNG response
RenderStep ==
    /\ handler = "page"
    /\ pc = "render"
    /\ ClampPage(pageArg, Len(doc)) < Len(doc)
    /\ Use
    /\ ret' = Resp("png", <<doc[ClampPage(pageArg, Len(doc)) + 1].orig>>)
    /\ pc' = "finally"
    /\ UNCHANGED <<request, handle, closes, doc, parsed, delete_idx, ovi, delq,
                   calls, exc, out, resp>>

\* line 118: doc[page] (always, on a document without pages) or get_pixmap raises
RenderRaises ==
    /\ handler = "page"
    /\ pc = "render"
    /\ Use
    /\ RaiseInTry("get_pixmap_raised", ClampPage(pageArg, Len(doc)), 0)
    /\ UNCHANGED <<request, handle, closes, doc, parsed, delete_idx, ovi, delq,
                   out, ret, resp>>

\* ----------------------------------------------------------- specification
Next ==
    \/ OpenDoc
    \/ OpenRaises
    \/ ExportParse
    \/ OverlaySkip
    \/ OverlayInsert
    \/ OverlayRaises
    \/ OverlaysDone
    \/ DeleteStep
    \/ DeleteRaises
    \/ DeletionsDone
    \/ SaveDoc
    \/ SaveRaises
    \/ ThumbStep
    \/ ThumbRaises
    \/ ThumbsReturn
    \/ RenderStep
    \/ RenderRaises
    \/ CloseDoc
    \/ ExceptHandler

Spec == Init /\ [][Next]_vars

\* ------------------------------------- _parse_deletions as a pure function
ParseStrings == {<<"2">>, <<"x">>, <<"-", "1">>, <<" ", "1", " ">>}

ParseEntries ==
    {StrE(s) : s \in ParseStrings}
      \cup {IntE(0), IntE(ParseMaxPages), FloatE(27), FloatE(-5), NullE}

ParseRaws ==
    {RawList(items) : items \in SeqsUpTo(ParseEntries, ParseMaxRaw)}
      \cup {RawEmpty, RawScalar, RawNotJson, RawString(<<"1", "0">>), RawString(<<"a">>)}

ParseInit ==
    /\ handler = "parse"
    /\ pdfPages \in 0..ParseMaxPages
    /\ raw \in ParseRaws
    /\ overlays = <<>>
    /\ pageArg = 0
    /\ Idle

\* a call _parse_deletions(raw, page_count) and its return value
ParseCall ==
    /\ handler = "parse"
    /\ pc = "start"
    /\ parsed' = ParseDeletions(raw, pdfPages)
    /\ pc' = "done"
    /\ UNCHANGED <<request, handle, closes, badUse, doc, delete_idx, ovi, delq,
                   calls, exc, out, ret, resp>>

ParseNext == ParseCall

SpecParse == ParseInit /\ [][ParseNext]_vars

\* ------------------------------------------------- vocabulary of the claims
\* the integer a filename is tagged with: its last run of digits (NoIdx when none)
TagOf(name) ==
    LET ds == {p \in 1..Len(name) : IsDigit(name[p])}
    IN IF ds = {} THEN NoIdx
       ELSE LET b == SetMax(ds)
                a == SetMin({k \in 1..b : \A j \in k..b : j \in ds})
            IN DecVal(SubSeq(name, a, b))

\* the tags of the request's overlays, in request order
Tags == [k \in 1..Len(overlays) |-> TagOf(overlays[k])]

\* the normalized deletion set of the request, read off the raw entries
NormalSet ==
    {i \in 0..(pdfPages - 1) :
        \E j \in 1..Len(raw.items) : IntOf(raw.items[j]) = Value(i)}

\* final index of surviving original page i under deletion set D
Shift(i, D) == i - Cardinality({d \in D : d < i})

\* positions (1-based) of the pages of d that carry overlay k
Carriers(d, k) == {p \in 1..Len(d) : \E j \in 1..Len(d[p].imgs) : d[p].imgs[j] = k}

Copies(imgs, k) == Cardinality({j \in 1..Len(imgs) : imgs[j] = k})

Origs(d) == [p \in 1..Len(d) |-> d[p].orig]

\* tag t is the index of a page of the uploaded document that D leaves alive
Surviving(t, D) == 0 <= t /\ t < pdfPages /\ t \notin D

CallsOf(ops) == {c \in 1..Len(calls) : calls[c].op \in ops}

DeleteOps == {"delete_page", "delete_page_raised"}
InsertOps == {"insert_image", "insert_image_raised"}
RaisedOps == {"open_raised", "insert_image_raised", "delete_page_raised",
              "save_raised", "get_pixmap_raised"}

\* ------------------------------------------------------------------ claims
\* C1: in the document export_pdf returns, every overlay tagged with a
\* surviving original index i sits exactly once on the page at final index
\* i - |{d in D : d < i}|, which is original page i, and on no other page;
\* a surviving page that no overlay is tagged for carries no image.
C1_OverlayPlacement ==
    (handler = "export" /\ resp.kind = "pdf") =>
        LET D == NormalSet
            tag == Tags
        IN /\ \A k \in 1..Len(overlays) :
                 Surviving(tag[k], D) =>
                    LET p == Shift(tag[k], D) + 1
                    IN /\ Carriers(resp.body, k) = {p}
                       /\ resp.body[p].orig = tag[k]
                       /\ Copies(resp.body[p].imgs, k) = 1
           /\ \A p \in 1..Len(resp.body) :
                 (\A k \in 1..Len(overlays) : tag[k] # resp.body[p].orig)
                    => resp.body[p].imgs = <<>>

\* N=3, D={1}, overlays tagged 0 and 2: a 2-page output, the overlays on
\* final pages 0 (not shifted) and 1 (shifted by one)
C1_Witness ==
    /\ handler = "export" /\ resp.kind = "pdf"
    /\ pdfPages = 3
    /\ NormalSet = {1}
    /\ overlays = <<NameTwoInts, NameFor(2)>>
    /\ Origs(resp.body) = <<0, 2>>
    /\ resp.body[1].imgs = <<1>>
    /\ resp.body[2].imgs = <<2>>

\* C2: when the deletion loop is done the document has N - |D| pages, the
\* original pages outside D in their original order; the map from surviving
\* original index to final index is strictly increasing onto [0, N - |D|),
\* and no page of D is left.
C2_DeletionPhaseResult ==
    (handler = "export" /\ pc = "save") =>
        LET D == delete_idx
            N == pdfPages
            final(i) == CHOOSE p \in 1..Len(doc) : doc[p].orig = i
        IN /\ D \subseteq 0..(N - 1)
           /\ Len(doc) = N - Cardinality(D)
           /\ Origs(doc) = SortedAsc((0..(N - 1)) \ D)
           /\ \A i \in D : \A p \in 1..Len(doc) : doc[p].orig # i
           /\ \A i \in (0..(N - 1)) \ D :
                 /\ Cardinality({p \in 1..Len(doc) : doc[p].orig = i}) = 1
                 /\ final(i) - 1 = Shift(i, D)
           /\ \A a, b \in (0..(N - 1)) \ D : a < b => final(a) < final(b)
           /\ {final(i) - 1 : i \in (0..(N - 1)) \ D} = 0..(N - Cardinality(D) - 1)

\* N=3, D={1}: 0->0, 2->1
C2_Witness ==
    /\ handler = "export" /\ pc = "save"
    /\ pdfPages = 3
    /\ delete_idx = {1}
    /\ Origs(doc) = <<0, 2>>

\* C3: _parse_deletions returns, without duplicates and in ascending order,
\* exactly the integers in [0, N) that some entry parses to; entries that do
\* not parse or are out of range are dropped alone, and input that is not a
\* JSON array yields the empty list.
C3_ParseDeletionsNormalizes ==
    (handler = "parse" /\ pc = "done") =>
        /\ \A a, b \in 1..Len(parsed) : a < b => parsed[a] < parsed[b]
        /\ Range(parsed) = NormalSet
        /\ raw.kind \in {"notjson", "scalar"} => parsed = <<>>

\* ["2", "x", "-1", "2"] with N=5 yields [2]
C3_Witness ==
    /\ handler = "parse" /\ pc = "done"
    /\ pdfPages = 5
    /\ raw = RawList(<<StrE(<<"2">>), StrE(<<"x">>), StrE(<<"-", "1">>), StrE(<<"2">>)>>)
    /\ parsed = <<2>>

\* C4: an overlay without an integer in its name, tagged for a deleted page
\* or tagged out of range causes no engine call (none issued, none raised)
\* and marks no page; every other overlay the loop has passed was handed to
\* insert_image, and an exception in the overlay loop comes from an overlay
\* that is not dropped.
C4_DroppedOverlaysNeverFail ==
    handler = "export" =>
        LET D == NormalSet
            tag == Tags
        IN /\ \A k \in 1..Len(overlays) :
                 ~Surviving(tag[k], D) =>
                    /\ \A c \in 1..Len(calls) : calls[c].ov # k
                    /\ Carriers(doc, k) = {}
           /\ \A k \in 1..ovi :
                 Surviving(tag[k], D) =>
                    \E c \in 1..Len(calls) :
                       calls[c].op = "insert_image" /\ calls[c].ov = k
           /\ (exc /\ handle # "none" /\ ovi < Len(overlays)) =>
                 /\ Surviving(tag[ovi + 1], D)
                 /\ calls[Len(calls)] =
                       Call("insert_image_raised", tag[ovi + 1], NoIdx, ovi + 1)

\* an overlay tagged for a deleted page was passed over and the next one inserted
C4_Witness ==
    /\ handler = "export" /\ resp.kind = "pdf"
    /\ Len(overlays) = 2
    /\ Tags[1] \in NormalSet
    /\ Surviving(Tags[2], NormalSet)
    /\ Carriers(resp.body, 1) = {}
    /\ Carriers(resp.body, 2) # {}

\* C5 as stated: every delete_page call comes before every insert_image call,
\* and overlays are inserted at post-deletion indices.
C5_DeletionsBeforeOverlays ==
    \A a, b \in 1..Len(calls) :
        (a < b /\ calls[b].op \in DeleteOps) => calls[a].op \notin InsertOps

\* C5 amended: every insert_image call comes before every delete_page call;
\* an overlay is inserted at its original-epoch index (the index is its tag
\* and the page there is that original page), on a document that still has
\* all its pages.
C5_OverlaysBeforeDeletions ==
    handler = "export" =>
        /\ \A a, b \in 1..Len(calls) :
              (a < b /\ calls[b].op \in InsertOps) => calls[a].op \notin DeleteOps
        /\ \A c \in 1..Len(calls) :
              calls[c].op = "insert_image" =>
                 /\ calls[c].idx = TagOf(overlays[calls[c].ov])
                 /\ calls[c].orig = calls[c].idx
        /\ pc = "overlays" => Len(doc) = pdfPages

C5_Witness ==
    /\ handler = "export" /\ resp.kind = "pdf"
    /\ \E a, b \in 1..Len(calls) :
          a < b /\ calls[a].op = "insert_image" /\ calls[b].op = "delete_page"

\* C6 as stated: an overlay whose insertion raises is skipped alone; the
\* request is not put on the failure path and does not answer export_failed.
C6_PerOverlayFailureAbsorbed ==
    (handler = "export" /\ CallsOf({"insert_image_raised"}) # {}) =>
        /\ ~exc
        /\ resp.kind # "export_failed"

\* C7: in the three handlers a document that was opened is closed exactly once
\* before the response is sent, on the success path and on every failure path,
\* and no document call is made on a handle that is not open.
C7_HandleReleased ==
    /\ closes <= 1
    /\ ~badUse
    /\ (handle = "closed") <=> (closes = 1)
    /\ resp.kind # "none" => handle # "open"
    /\ pc = "done" =>
          \/ handle = "closed"
          \/ handle = "none" /\ calls = <<Call("open_raised", NoIdx, NoIdx, 0)>>

\* a failure path after the document was opened
C7_Witness ==
    /\ pc = "done"
    /\ handle = "closed"
    /\ closes = 1
    /\ handler = "export"
    /\ resp.kind = "export_failed"
    /\ CallsOf({"delete_page_raised"}) # {}

\* C8: export_pdf answers once, at its end, with a PDF or with export_failed.
\* A PDF is the document as saved after the overlay loop and the deletion loop
\* both ran to their end with no call raising; once any call has raised the
\* answer is export_failed, which carries no document.
C8_AllOrNothing ==
    handler = "export" =>
        /\ resp.kind \in {"none", "pdf", "export_failed"}
        /\ (pc = "done") <=> (resp.kind # "none")
        /\ resp.kind = "pdf" =>
              LET D == NormalSet
                  tag == Tags
              IN /\ CallsOf(RaisedOps) = {}
                 /\ ovi = Len(overlays)
                 /\ delq = <<>>
                 /\ Cardinality(CallsOf({"delete_page"})) = Cardinality(D)
                 /\ \A k \in 1..Len(overlays) :
                       Surviving(tag[k], D) =>
                          \E c \in 1..Len(calls) :
                             calls[c].op = "insert_image" /\ calls[c].ov = k
                 /\ resp.body = doc
        /\ resp.kind = "export_failed" => resp.body = <<>>
        /\ (pc = "done" /\ CallsOf(RaisedOps) # {}) => resp.kind = "export_failed"

\* a request that failed after part of the edits were applied
C8_Witness ==
    /\ handler = "export" /\ pc = "done"
    /\ resp = Resp("export_failed", <<>>)
    /\ CallsOf({"insert_image"}) # {}
    /\ CallsOf({"delete_page"}) # {}
    /\ CallsOf({"delete_page_raised"}) # {}

C10_DescendingDeletion ==
    (handler = "export" /\ calls # <<>>) =>
        LET D == NormalSet
            dels == CallsOf(DeleteOps)
        IN /\ \A c \in 1..Len(calls) : calls[c].op # "guard_reject"
           /\ \A a, b \in dels : a < b => calls[a].idx > calls[b].idx
           /\ \A c \in dels :
                 /\ calls[c].idx \in D
                 /\ calls[c].op = "delete_page" => calls[c].orig = calls[c].idx
           /\ pc = "save" => {calls[c].idx : c \in CallsOf({"delete_page"})} = D

\* the list [0, 2] in ascending order: page 2 is deleted first, then page 0
C10_Witness ==
    /\ handler = "export" /\ pc = "save"
    /\ raw = RawList(<<IntE(0), IntE(2)>>)
    /\ Len(calls) = 2
    /\ calls[1] = Call("delete_page", 2, 2, 0)
    /\ calls[2] = Call("delete_page", 0, 0, 0)

=============================================================================
